---- MODULE Spec2Model ----
(***************************************************************************)
(* proxy-stream: a TCP relay.  main() accepts connections in a loop and    *)
(* spawns one handle_client task per connection.  handle_client writes a   *)
(* fixed "101 Switching Protocols" response to the client, dials the       *)
(* target, splits both sockets into read and write halves and spawns two   *)
(* forwarding tasks: client_to_server (which drops the first `skip`        *)
(* chunks it reads) and server_to_client.  It then joins both tasks.       *)
(*                                                                         *)
(* A socket read is modelled by its completion: the action that returns    *)
(* Ok(n), Ok(0) or Err carries what the peer delivered.  The byte stream   *)
(* a peer sends is the sequence of its stream offsets (offset + base), so  *)
(* that any loss, duplication or reordering of bytes is visible; how the   *)
(* stream is cut into reads is chosen freely at every read.                *)
(***************************************************************************)
EXTENDS Naturals, Sequences, FiniteSets

\* ---------------------------------------------------------------- bounds
MaxSessions == 2     \* connections the clients open in the many-session runs
MaxSkip == 2         \* largest value of args.skip explored
MaxReads == 3        \* non-empty reads per pump in the one-session runs
MaxChunkLen == 2     \* largest n returned by one read (stands for the 4096-byte buffer)

Sessions == 1..MaxSessions

\* ------------------------------------------------------ program constants
\* b"HTTP/1.1 101 Switching Protocols\r\nContent-Length: 1048576000000\r\n\r\n"
HandshakeResponse ==
    << 72, 84, 84, 80, 47, 49, 46, 49, 32, 49, 48, 49, 32, 83, 119, 105, 116,
       99, 104, 105, 110, 103, 32, 80, 114, 111, 116, 111, 99, 111, 108, 115,
       13, 10, 67, 111, 110, 116, 101, 110, 116, 45, 76, 101, 110, 103, 116,
       104, 58, 32, 49, 48, 52, 56, 53, 55, 54, 48, 48, 48, 48, 48, 48, 13,
       10, 13, 10 >>

\* -------------------------------------------------------------- the peers
\* What the environment will do in one run: how many connections are opened,
\* how many non-empty reads the client (creads) and the target (sreads) of a
\* connection supply, how long a read may be, and the largest args.skip.
Profiles ==
    { [conns |-> 1, creads |-> MaxReads, sreads |-> 1, len |-> MaxChunkLen,
       skips |-> MaxSkip],
      [conns |-> 1, creads |-> 1, sreads |-> MaxReads, len |-> MaxChunkLen,
       skips |-> MaxSkip],
      [conns |-> MaxSessions, creads |-> 2, sreads |-> 0, len |-> 1,
       skips |-> 1] }

\* Byte i (from 1) of the stream each peer sends.
ClientByte(i) == i
ServerByte(i) == 100 + i

VARIABLES
    skip,          \* args.skip
    env,           \* the profile of the peers in this run
    main,          \* "accepting" | "exited": the accept loop of main()
    accepted,      \* number of connections accepted so far
    sess,          \* per connection: position of its handle_client task
    hsSent,        \* per connection: bytes of the handshake response written to the client
    dials,         \* per connection: number of TcpStream::connect calls made
    cliSock,       \* per connection: state of the client socket
    srvSock,       \* per connection: state of the target socket
    c2s_pc,        \* client_to_server task: "unspawned" | "read" | "write" | "ended"
    packet_count,  \* client_to_server task: its packet_count local
    c2s_buf,       \* client_to_server task: buffer[..n] awaiting write_all
    c2s_end,       \* why client_to_server ended
    cliRead,       \* chunks client_to_server has read from the client, in order
    srvWritten,    \* chunks client_to_server has written to the target, in order
    s2c_pc,        \* server_to_client task: "unspawned" | "read" | "write" | "ended"
    s2c_buf,       \* server_to_client task: buffer[..n] awaiting write_all
    s2c_end,       \* why server_to_client ended
    srvRead,       \* chunks server_to_client has read from the target, in order
    cliWritten     \* chunks server_to_client has written to the client, in order

vars == << skip, env, main, accepted, sess, hsSent, dials, cliSock, srvSock,
           c2s_pc, packet_count, c2s_buf, c2s_end, cliRead, srvWritten,
           s2c_pc, s2c_buf, s2c_end, srvRead, cliWritten >>

mainVars == << main, accepted >>
sessVars == << sess, hsSent, dials >>
c2sVars == << c2s_pc, packet_count, c2s_buf, c2s_end, cliRead, srvWritten >>
s2cVars == << s2c_pc, s2c_buf, s2c_end, srvRead, cliWritten >>
cfgVars == << skip, env >>

\* ---------------------------------------------------------------- helpers
RECURSIVE Flatten(_)
\* The bytes of a sequence of chunks, in order.
Flatten(chunks) ==
    IF chunks = << >> THEN << >> ELSE Head(chunks) \o Flatten(Tail(chunks))

IsPrefix(a, b) == Len(a) <= Len(b) /\ SubSeq(b, 1, Len(a)) = a

\* What client_read.read(&mut buffer) leaves in buffer[..n]: the next n bytes
\* of the client's stream after the chunks already read.
ClientChunk(readSoFar, n) ==
    [i \in 1..n |-> ClientByte(Len(Flatten(readSoFar)) + i)]

\* What server_read.read(&mut buffer) leaves in buffer[..n].
ServerChunk(readSoFar, n) ==
    [i \in 1..n |-> ServerByte(Len(Flatten(readSoFar)) + i)]

\* Dropping an OwnedReadHalf does nothing on the wire; dropping an
\* OwnedWriteHalf shuts the write direction down; the socket is closed when
\* both halves are gone.
DropReadHalf(sock) == IF sock = "wr_shut" THEN "closed" ELSE "rd_dropped"
\* Faulty variant: releasing the write half closes the whole socket.
DropWriteHalf_ClosesSocket(sock) == "closed"

\* Faulty variant: the write half is released without shutting the write direction down.
DropWriteHalf_NoShutdown(sock) == IF sock = "rd_dropped" THEN "closed" ELSE "open"
DropWriteHalf(sock) == IF sock = "rd_dropped" THEN "closed" ELSE "wr_shut"

\* Faulty variant: the comparison is off by one.
Skipping_OffByOne(count, k) == count <= k

\* The skip filter of client_to_server.
Skipping(count, k) == count < k
Forwarding(count, k) == count = k
ClampCount(count, k) == IF count > k THEN k ELSE count

\* Faulty variant: forwarded chunks are counted too, and the count is only
\* brought back to skip after the write.
AfterRead_CountsForwarded(count, k) ==
    IF Skipping(count, k)
    THEN [count |-> count + 1, write |-> FALSE]
    ELSE IF Forwarding(count, k)
         THEN [count |-> count + 1, write |-> TRUE]
         ELSE [count |-> ClampCount(count, k), write |-> FALSE]

\* Faulty variant: a chunk that is counted as skipped is forwarded all the same.
AfterRead_WritesSkipped(count, k) ==
    IF Skipping(count, k)
    THEN [count |-> ClampCount(count + 1, k), write |-> TRUE]
    ELSE IF Forwarding(count, k)
         THEN [count |-> count, write |-> TRUE]
         ELSE [count |-> ClampCount(count, k), write |-> FALSE]

\* What client_to_server does with a chunk it has read, up to its next await:
\* the new packet_count, and whether the chunk goes to server_write.write_all.
AfterRead(count, k) ==
    IF Skipping(count, k)
    THEN [count |-> ClampCount(count + 1, k), write |-> FALSE]
    ELSE IF Forwarding(count, k)
         THEN [count |-> count, write |-> TRUE]
         ELSE [count |-> ClampCount(count, k), write |-> FALSE]

Live(s) == sess[s] \in {"accepted", "dialing", "forwarding"}

\* ------------------------------------------------------------------- Init
Init ==
    /\ env \in Profiles
    /\ skip \in 0..env.skips
    /\ main = "accepting"
    /\ accepted = 0
    /\ sess = [s \in Sessions |-> "none"]
    /\ hsSent = [s \in Sessions |-> << >>]
    /\ dials = [s \in Sessions |-> 0]
    /\ cliSock = [s \in Sessions |-> "none"]
    /\ srvSock = [s \in Sessions |-> "none"]
    /\ c2s_pc = [s \in Sessions |-> "unspawned"]
    /\ packet_count = [s \in Sessions |-> 0]
    /\ c2s_buf = [s \in Sessions |-> << >>]
    /\ c2s_end = [s \in Sessions |-> "none"]
    /\ cliRead = [s \in Sessions |-> << >>]
    /\ srvWritten = [s \in Sessions |-> << >>]
    /\ s2c_pc = [s \in Sessions |-> "unspawned"]
    /\ s2c_buf = [s \in Sessions |-> << >>]
    /\ s2c_end = [s \in Sessions |-> "none"]
    /\ srvRead = [s \in Sessions |-> << >>]
    /\ cliWritten = [s \in Sessions |-> << >>]

\* ------------------------------------------------------------ accept loop
\* Faulty variant: handle_client is awaited in the loop, so accept is reached
\* again only when the session has ended.
Accept_AfterSession ==
    /\ main = "accepting"
    /\ \A s \in Sessions : ~Live(s)
    /\ accepted < env.conns
    /\ accepted' = accepted + 1
    /\ sess' = [sess EXCEPT ![accepted + 1] = "accepted"]
    /\ cliSock' = [cliSock EXCEPT ![accepted + 1] = "open"]
    /\ UNCHANGED << main, hsSent, dials, srvSock, c2sVars, s2cVars, cfgVars >>

\* listener.accept() returns Ok: the connection is handed to a spawned task
\* and the loop goes back to accept.
Accept ==
    /\ main = "accepting"
    /\ accepted < env.conns
    /\ accepted' = accepted + 1
    /\ sess' = [sess EXCEPT ![accepted + 1] = "accepted"]
    /\ cliSock' = [cliSock EXCEPT ![accepted + 1] = "open"]
    /\ UNCHANGED << main, hsSent, dials, srvSock, c2sVars, s2cVars, cfgVars >>

\* listener.accept() returns Err: `?` returns the error from main().  The
\* runtime is dropped with main's future, which drops every spawned task
\* at the await it is parked on, and with the tasks their sockets.
AcceptError ==
    /\ main = "accepting"
    /\ main' = "exited"
    /\ sess' = [s \in Sessions |-> IF Live(s) THEN "shutdown" ELSE sess[s]]
    /\ cliSock' = [s \in Sessions |->
                     IF cliSock[s] = "none" THEN "none" ELSE "closed"]
    /\ srvSock' = [s \in Sessions |->
                     IF srvSock[s] = "none" THEN "none" ELSE "closed"]
    /\ c2s_pc' = [s \in Sessions |->
                    IF c2s_pc[s] \in {"read", "write"} THEN "ended" ELSE c2s_pc[s]]
    /\ c2s_end' = [s \in Sessions |->
                     IF c2s_pc[s] \in {"read", "write"} THEN "shutdown" ELSE c2s_end[s]]
    /\ s2c_pc' = [s \in Sessions |->
                    IF s2c_pc[s] \in {"read", "write"} THEN "ended" ELSE s2c_pc[s]]
    /\ s2c_end' = [s \in Sessions |->
                     IF s2c_pc[s] \in {"read", "write"} THEN "shutdown" ELSE s2c_end[s]]
    /\ UNCHANGED << accepted, hsSent, dials, packet_count, c2s_buf, cliRead,
                    srvWritten, s2c_buf, srvRead, cliWritten, cfgVars >>

\* ---------------------------------------------------------- handle_client
\* Faulty variant: the error of handle_client is returned from main().
PeerAddrError_Propagates(s) ==
    /\ sess[s] = "accepted"
    /\ sess' = [sess EXCEPT ![s] = "addr_failed"]
    /\ cliSock' = [cliSock EXCEPT ![s] = "closed"]
    /\ main' = "exited"
    /\ UNCHANGED << accepted, hsSent, dials, srvSock, c2sVars, s2cVars, cfgVars >>

\* client.peer_addr()? fails: handle_client returns the error, the client
\* socket is dropped, the spawned task logs the error.
PeerAddrError(s) ==
    /\ sess[s] = "accepted"
    /\ sess' = [sess EXCEPT ![s] = "addr_failed"]
    /\ cliSock' = [cliSock EXCEPT ![s] = "closed"]
    /\ UNCHANGED << mainVars, hsSent, dials, srvSock, c2sVars, s2cVars, cfgVars >>

\* client.write_all(response).await succeeds: the whole response is written.
HandshakeOk(s) ==
    /\ sess[s] = "accepted"
    /\ hsSent' = [hsSent EXCEPT ![s] = HandshakeResponse]
    /\ sess' = [sess EXCEPT ![s] = "dialing"]
    /\ UNCHANGED << mainVars, dials, cliSock, srvSock, c2sVars, s2cVars, cfgVars >>

\* How many bytes of the response a failed write_all may have written.
HandshakeCuts == {0, 1, Len(HandshakeResponse) - 1}

\* Faulty variant: the result of the handshake write is ignored.
HandshakeError_Ignored(s, cut) ==
    /\ sess[s] = "accepted"
    /\ hsSent' = [hsSent EXCEPT ![s] = SubSeq(HandshakeResponse, 1, cut)]
    /\ sess' = [sess EXCEPT ![s] = "dialing"]
    /\ UNCHANGED << mainVars, dials, cliSock, srvSock, c2sVars, s2cVars, cfgVars >>

\* client.write_all(response).await? fails after writing `cut` bytes.
HandshakeError(s, cut) ==
    /\ sess[s] = "accepted"
    /\ hsSent' = [hsSent EXCEPT ![s] = SubSeq(HandshakeResponse, 1, cut)]
    /\ sess' = [sess EXCEPT ![s] = "hs_failed"]
    /\ cliSock' = [cliSock EXCEPT ![s] = "closed"]
    /\ UNCHANGED << mainVars, dials, srvSock, c2sVars, s2cVars, cfgVars >>

\* TcpStream::connect(target).await succeeds: both sockets are split and the
\* two forwarding tasks are spawned; handle_client waits in try_join!.
DialOk(s) ==
    /\ sess[s] = "dialing"
    /\ dials' = [dials EXCEPT ![s] = @ + 1]
    /\ srvSock' = [srvSock EXCEPT ![s] = "open"]
    /\ sess' = [sess EXCEPT ![s] = "forwarding"]
    /\ c2s_pc' = [c2s_pc EXCEPT ![s] = "read"]
    /\ packet_count' = [packet_count EXCEPT ![s] = 0]
    /\ s2c_pc' = [s2c_pc EXCEPT ![s] = "read"]
    /\ UNCHANGED << mainVars, hsSent, cliSock, c2s_buf, c2s_end, cliRead,
                    srvWritten, s2c_buf, s2c_end, srvRead, cliWritten, cfgVars >>

\* Faulty variant: a failed connect is tried again.
DialError_Retry(s) ==
    /\ sess[s] = "dialing"
    /\ dials' = [dials EXCEPT ![s] = @ + 1]
    /\ UNCHANGED << mainVars, sess, hsSent, cliSock, srvSock, c2sVars, s2cVars,
                    cfgVars >>

\* TcpStream::connect(target).await? fails: handle_client returns the error,
\* the client socket is dropped, the spawned task logs the error.
DialError(s) ==
    /\ sess[s] = "dialing"
    /\ dials' = [dials EXCEPT ![s] = @ + 1]
    /\ sess' = [sess EXCEPT ![s] = "dial_failed"]
    /\ cliSock' = [cliSock EXCEPT ![s] = "closed"]
    /\ UNCHANGED << mainVars, hsSent, srvSock, c2sVars, s2cVars, cfgVars >>

\* Faulty variant: the join resolves as soon as either task has finished.
Join_Either(s) ==
    /\ sess[s] = "forwarding"
    /\ (c2s_pc[s] = "ended" \/ s2c_pc[s] = "ended")
    /\ sess' = [sess EXCEPT ![s] = "done"]
    /\ UNCHANGED << mainVars, hsSent, dials, cliSock, srvSock, c2sVars, s2cVars,
                    cfgVars >>

\* try_join!(client_to_server, server_to_client) resolves once both tasks
\* have finished; handle_client logs the termination and returns Ok.
Join(s) ==
    /\ sess[s] = "forwarding"
    /\ c2s_pc[s] = "ended"
    /\ s2c_pc[s] = "ended"
    /\ sess' = [sess EXCEPT ![s] = "done"]
    /\ UNCHANGED << mainVars, hsSent, dials, cliSock, srvSock, c2sVars, s2cVars,
                    cfgVars >>

\* Faulty variant: one packet_count (kept with the first session) serves
\* every session.
C2SRead_SharedCount(s, n) ==
    /\ c2s_pc[s] = "read"
    /\ Len(cliRead[s]) < env.creads
    /\ LET chunk == ClientChunk(cliRead[s], n)
           r == AfterRead(packet_count[1], skip)
       IN /\ cliRead' = [cliRead EXCEPT ![s] = Append(@, chunk)]
          /\ packet_count' = [packet_count EXCEPT ![1] = r.count]
          /\ c2s_pc' = [c2s_pc EXCEPT ![s] = IF r.write THEN "write" ELSE "read"]
          /\ c2s_buf' = [c2s_buf EXCEPT ![s] = IF r.write THEN chunk ELSE << >>]
    /\ UNCHANGED << mainVars, sessVars, cliSock, srvSock, c2s_end, srvWritten,
                    s2cVars, cfgVars >>

\* ------------------------------------------------------- client_to_server
\* client_read.read(&mut buffer) returns Ok(n), n > 0.
C2SRead(s, n) ==
    /\ c2s_pc[s] = "read"
    /\ Len(cliRead[s]) < env.creads
    /\ LET chunk == ClientChunk(cliRead[s], n)
           r == AfterRead(packet_count[s], skip)
       IN /\ cliRead' = [cliRead EXCEPT ![s] = Append(@, chunk)]
          /\ packet_count' = [packet_count EXCEPT ![s] = r.count]
          /\ c2s_pc' = [c2s_pc EXCEPT ![s] = IF r.write THEN "write" ELSE "read"]
          /\ c2s_buf' = [c2s_buf EXCEPT ![s] = IF r.write THEN chunk ELSE << >>]
    /\ UNCHANGED << mainVars, sessVars, cliSock, srvSock, c2s_end, srvWritten,
                    s2cVars, cfgVars >>

\* The client_to_server task finishes: client_read and server_write are
\* dropped with it.
C2SEnd(s, why) ==
    /\ c2s_pc' = [c2s_pc EXCEPT ![s] = "ended"]
    /\ c2s_end' = [c2s_end EXCEPT ![s] = why]
    /\ c2s_buf' = [c2s_buf EXCEPT ![s] = << >>]
    /\ cliSock' = [cliSock EXCEPT ![s] = DropReadHalf(@)]
    /\ srvSock' = [srvSock EXCEPT ![s] = DropWriteHalf(@)]

\* client_read.read(&mut buffer) returns Ok(0): break.
C2SReadEof(s) ==
    /\ c2s_pc[s] = "read"
    /\ C2SEnd(s, "eof")
    /\ UNCHANGED << mainVars, sessVars, packet_count, cliRead, srvWritten,
                    s2cVars, cfgVars >>

\* client_read.read(&mut buffer) returns Err: log and break.
C2SReadError(s) ==
    /\ c2s_pc[s] = "read"
    /\ C2SEnd(s, "read_err")
    /\ UNCHANGED << mainVars, sessVars, packet_count, cliRead, srvWritten,
                    s2cVars, cfgVars >>

\* Faulty variant: write() in place of write_all(): one byte is written and taken
\* for the whole chunk.
C2SWriteOk_FirstByteOnly(s) ==
    /\ c2s_pc[s] = "write"
    /\ srvWritten' = [srvWritten EXCEPT ![s] = Append(@, SubSeq(c2s_buf[s], 1, 1))]
    /\ packet_count' = [packet_count EXCEPT ![s] = ClampCount(@, skip)]
    /\ c2s_buf' = [c2s_buf EXCEPT ![s] = << >>]
    /\ c2s_pc' = [c2s_pc EXCEPT ![s] = "read"]
    /\ UNCHANGED << mainVars, sessVars, cliSock, srvSock, c2s_end, cliRead,
                    s2cVars, cfgVars >>

\* Faulty variant: the chunk is written again after a completed write.
C2SWriteOk_Twice(s) ==
    /\ c2s_pc[s] = "write"
    /\ srvWritten' = [srvWritten EXCEPT ![s] = Append(Append(@, c2s_buf[s]), c2s_buf[s])]
    /\ packet_count' = [packet_count EXCEPT ![s] = ClampCount(@, skip)]
    /\ c2s_buf' = [c2s_buf EXCEPT ![s] = << >>]
    /\ c2s_pc' = [c2s_pc EXCEPT ![s] = "read"]
    /\ UNCHANGED << mainVars, sessVars, cliSock, srvSock, c2s_end, cliRead,
                    s2cVars, cfgVars >>

\* server_write.write_all(&buffer[..n]) returns Ok: back to the read.
C2SWriteOk(s) ==
    /\ c2s_pc[s] = "write"
    /\ srvWritten' = [srvWritten EXCEPT ![s] = Append(@, c2s_buf[s])]
    /\ packet_count' = [packet_count EXCEPT ![s] = ClampCount(@, skip)]
    /\ c2s_buf' = [c2s_buf EXCEPT ![s] = << >>]
    /\ c2s_pc' = [c2s_pc EXCEPT ![s] = "read"]
    /\ UNCHANGED << mainVars, sessVars, cliSock, srvSock, c2s_end, cliRead,
                    s2cVars, cfgVars >>

\* Faulty variant: the write error is logged and the loop goes on.
C2SWriteError_NoBreak(s, cut) ==
    /\ c2s_pc[s] = "write"
    /\ cut < Len(c2s_buf[s])
    /\ srvWritten' = [srvWritten EXCEPT ![s] =
                        IF cut = 0 THEN @ ELSE Append(@, SubSeq(c2s_buf[s], 1, cut))]
    /\ c2s_end' = [c2s_end EXCEPT ![s] = "write_err"]
    /\ c2s_buf' = [c2s_buf EXCEPT ![s] = << >>]
    /\ c2s_pc' = [c2s_pc EXCEPT ![s] = "read"]
    /\ UNCHANGED << mainVars, sessVars, cliSock, srvSock, packet_count, cliRead,
                    s2cVars, cfgVars >>

\* server_write.write_all(&buffer[..n]) returns Err after writing `cut`
\* bytes of the chunk: log and break.
C2SWriteError(s, cut) ==
    /\ c2s_pc[s] = "write"
    /\ cut < Len(c2s_buf[s])
    /\ srvWritten' = [srvWritten EXCEPT ![s] =
                        IF cut = 0 THEN @ ELSE Append(@, SubSeq(c2s_buf[s], 1, cut))]
    /\ C2SEnd(s, "write_err")
    /\ UNCHANGED << mainVars, sessVars, packet_count, cliRead, s2cVars, cfgVars >>

\* Faulty variant: the skip filter is applied to this direction as well.
S2CRead_Filtered(s, n) ==
    /\ s2c_pc[s] = "read"
    /\ Len(srvRead[s]) < env.sreads
    /\ LET chunk == ServerChunk(srvRead[s], n)
           drop == Len(srvRead[s]) < skip
       IN /\ srvRead' = [srvRead EXCEPT ![s] = Append(@, chunk)]
          /\ s2c_buf' = [s2c_buf EXCEPT ![s] = IF drop THEN << >> ELSE chunk]
          /\ s2c_pc' = [s2c_pc EXCEPT ![s] = IF drop THEN "read" ELSE "write"]
    /\ UNCHANGED << mainVars, sessVars, cliSock, srvSock, s2c_end, cliWritten,
                    c2sVars, cfgVars >>

\* ------------------------------------------------------- server_to_client
\* server_read.read(&mut buffer) returns Ok(n), n > 0.
S2CRead(s, n) ==
    /\ s2c_pc[s] = "read"
    /\ Len(srvRead[s]) < env.sreads
    /\ LET chunk == ServerChunk(srvRead[s], n)
       IN /\ srvRead' = [srvRead EXCEPT ![s] = Append(@, chunk)]
          /\ s2c_buf' = [s2c_buf EXCEPT ![s] = chunk]
          /\ s2c_pc' = [s2c_pc EXCEPT ![s] = "write"]
    /\ UNCHANGED << mainVars, sessVars, cliSock, srvSock, s2c_end, cliWritten,
                    c2sVars, cfgVars >>

\* The server_to_client task finishes: server_read and client_write are
\* dropped with it.
S2CEnd(s, why) ==
    /\ s2c_pc' = [s2c_pc EXCEPT ![s] = "ended"]
    /\ s2c_end' = [s2c_end EXCEPT ![s] = why]
    /\ s2c_buf' = [s2c_buf EXCEPT ![s] = << >>]
    /\ srvSock' = [srvSock EXCEPT ![s] = DropReadHalf(@)]
    /\ cliSock' = [cliSock EXCEPT ![s] = DropWriteHalf(@)]

\* server_read.read(&mut buffer) returns Ok(0): break.
S2CReadEof(s) ==
    /\ s2c_pc[s] = "read"
    /\ S2CEnd(s, "eof")
    /\ UNCHANGED << mainVars, sessVars, srvRead, cliWritten, c2sVars, cfgVars >>

\* server_read.read(&mut buffer) returns Err: log and break.
S2CReadError(s) ==
    /\ s2c_pc[s] = "read"
    /\ S2CEnd(s, "read_err")
    /\ UNCHANGED << mainVars, sessVars, srvRead, cliWritten, c2sVars, cfgVars >>

\* client_write.write_all(&buffer[..n]) returns Ok: back to the read.
S2CWriteOk(s) ==
    /\ s2c_pc[s] = "write"
    /\ cliWritten' = [cliWritten EXCEPT ![s] = Append(@, s2c_buf[s])]
    /\ s2c_buf' = [s2c_buf EXCEPT ![s] = << >>]
    /\ s2c_pc' = [s2c_pc EXCEPT ![s] = "read"]
    /\ UNCHANGED << mainVars, sessVars, cliSock, srvSock, s2c_end, srvRead,
                    c2sVars, cfgVars >>

\* client_write.write_all(&buffer[..n]) returns Err after writing `cut`
\* bytes of the chunk: log and break.
S2CWriteError(s, cut) ==
    /\ s2c_pc[s] = "write"
    /\ cut < Len(s2c_buf[s])
    /\ cliWritten' = [cliWritten EXCEPT ![s] =
                        IF cut = 0 THEN @ ELSE Append(@, SubSeq(s2c_buf[s], 1, cut))]
    /\ S2CEnd(s, "write_err")
    /\ UNCHANGED << mainVars, sessVars, srvRead, c2sVars, cfgVars >>

\* ------------------------------------------------------------------- Next
Next ==
    \/ Accept
    \/ AcceptError
    \/ \E s \in Sessions : PeerAddrError(s)
    \/ \E s \in Sessions : HandshakeOk(s)
    \/ \E s \in Sessions : \E cut \in HandshakeCuts : HandshakeError(s, cut)
    \/ \E s \in Sessions : DialOk(s)
    \/ \E s \in Sessions : DialError(s)
    \/ \E s \in Sessions : Join(s)
    \/ \E s \in Sessions : \E n \in 1..env.len : C2SRead(s, n)
    \/ \E s \in Sessions : C2SReadEof(s)
    \/ \E s \in Sessions : C2SReadError(s)
    \/ \E s \in Sessions : C2SWriteOk(s)
    \/ \E s \in Sessions : \E cut \in 0..(MaxChunkLen - 1) : C2SWriteError(s, cut)
    \/ \E s \in Sessions : \E n \in 1..env.len : S2CRead(s, n)
    \/ \E s \in Sessions : S2CReadEof(s)
    \/ \E s \in Sessions : S2CReadError(s)
    \/ \E s \in Sessions : S2CWriteOk(s)
    \/ \E s \in Sessions : \E cut \in 0..(MaxChunkLen - 1) : S2CWriteError(s, cut)

Spec == Init /\ [][Next]_vars

\* What the code's scheduling guarantees: a task that can run is run, and a
\* write or a connect the task awaits completes, with Ok or with Err.  What a
\* peer sends, and when, is not guaranteed: no read and no accept is fair.
TaskStep(s) ==
    \/ PeerAddrError(s)
    \/ HandshakeOk(s)
    \/ \E cut \in HandshakeCuts : HandshakeError(s, cut)
    \/ DialOk(s)
    \/ DialError(s)
    \/ Join(s)
    \/ C2SWriteOk(s)
    \/ \E cut \in 0..(MaxChunkLen - 1) : C2SWriteError(s, cut)
    \/ S2CWriteOk(s)
    \/ \E cut \in 0..(MaxChunkLen - 1) : S2CWriteError(s, cut)

LiveSpec == Init /\ [][Next]_vars /\ \A s \in Sessions : WF_vars(TaskStep(s))

\* ------------------------------------------------------------- properties
\* seq without its first k elements.
DropFirst(seq, k) == SubSeq(seq, k + 1, Len(seq))

\* The chunk client_to_server holds between its read and its write_all.
C2SPending(s) == IF c2s_buf[s] = << >> THEN << >> ELSE << c2s_buf[s] >>

\* C1: with skip = K and no write error, the chunks written to the target are
\* exactly the chunks read from the client without the first K, whole and in
\* order; a chunk is pending only between its read and its write_all.
C1_SkipDropsFirstK ==
    \A s \in Sessions :
        c2s_end[s] # "write_err" =>
            /\ srvWritten[s] \o C2SPending(s) = DropFirst(cliRead[s], skip)
            /\ (c2s_pc[s] = "read" \/ c2s_end[s] \in {"eof", "read_err"})
                   => srvWritten[s] = DropFirst(cliRead[s], skip)

\* C1 witness: skip = 2, three chunks A, B, C read, client EOF: exactly C written.
C1_Witness ==
    \E s \in Sessions :
        /\ skip = 2
        /\ c2s_end[s] = "eof"
        /\ Len(cliRead[s]) = 3
        /\ srvWritten[s] = << cliRead[s][3] >>

\* C2: with skip = 0 the bytes written to the target are always a prefix of
\* the bytes read from the client, and equal to them once the pump has ended
\* on client EOF.
C2_TransparentWhenSkipZero ==
    skip = 0 =>
        \A s \in Sessions :
            /\ IsPrefix(Flatten(srvWritten[s]), Flatten(cliRead[s]))
            /\ c2s_end[s] = "eof"
                   => Flatten(srvWritten[s]) = Flatten(cliRead[s])

\* C2 witness: skip = 0, several chunks of different lengths relayed, then EOF.
C2_Witness ==
    \E s \in Sessions :
        /\ skip = 0
        /\ c2s_end[s] = "eof"
        /\ Len(cliRead[s]) >= 2
        /\ Len(Flatten(cliRead[s])) > Len(cliRead[s])
        /\ Flatten(srvWritten[s]) = Flatten(cliRead[s])

\* C3 (as claimed): for every limit M below the number of connections opened,
\* at most M sessions are past admission (dialling or forwarding) at once.
C3_AtMostMServiced ==
    \A M \in 1..(MaxSessions - 1) :
        Cardinality({s \in Sessions : sess[s] \in {"dialing", "forwarding"}}) <= M

\* C4: a session that has dialled the target has written the complete
\* handshake response to its client before.
C4_HandshakeBeforeDial ==
    \A s \in Sessions :
        (dials[s] > 0 \/ sess[s] \in {"dialing", "forwarding", "dial_failed", "done"})
            => hsSent[s] = HandshakeResponse

\* C4 witness: a session has dialled, its handshake response complete.
C4_Witness ==
    \E s \in Sessions : dials[s] = 1 /\ hsSent[s] = HandshakeResponse

\* C5 (as claimed): an accept error leaves the accept loop running.
C5_AcceptErrorKeepsLoop == [][AcceptError => main' = "accepting"]_vars

\* The non-empty reads a session has completed, in both directions.
Flow(s) == Len(cliRead[s]) + Len(srvRead[s])

\* A forwarding session with both pumps waiting in read after n non-empty reads.
Idle(s, n) ==
    /\ sess[s] = "forwarding"
    /\ c2s_pc[s] = "read"
    /\ s2c_pc[s] = "read"
    /\ Flow(s) = n

\* C6 (as claimed): a forwarding session to which neither peer delivers
\* anything any more (no data, no EOF, no error) does not stay as it is: it
\* is eventually torn down.
C6_IdleSessionTornDown ==
    \A s \in Sessions : \A n \in 0..(2 * (MaxReads + 2)) :
        Idle(s, n) ~> ~Idle(s, n)

\* C7: a failed dial ends the session at once: one dial only, no pump
\* spawned, the client socket closed, no target socket, and the accept loop
\* untouched.
C7_DialFailureEndsSession ==
    /\ [](\A s \in Sessions :
            sess[s] = "dial_failed" =>
                /\ dials[s] = 1
                /\ cliSock[s] = "closed"
                /\ srvSock[s] = "none"
                /\ c2s_pc[s] = "unspawned"
                /\ s2c_pc[s] = "unspawned")
    /\ [][\A s \in Sessions :
            (sess[s] = "dialing" /\ dials'[s] # dials[s] /\ sess'[s] # "forwarding")
                => (sess'[s] = "dial_failed" /\ mainVars' = mainVars)]_vars

\* C7 witness: a dial has failed while the accept loop is running.
C7_Witness ==
    \E s \in Sessions :
        sess[s] = "dial_failed" /\ cliSock[s] = "closed" /\ main = "accepting"

\* C8: once client_to_server has ended on client EOF, the write direction of
\* the target socket is shut down, whatever server_to_client is doing.
C8_ClientEofShutsTargetWrite ==
    \A s \in Sessions :
        c2s_end[s] = "eof" => srvSock[s] \in {"wr_shut", "closed"}

\* C8 witness: client EOF seen, target write side shut, server_to_client
\* still running.
C8_Witness ==
    \E s \in Sessions :
        /\ c2s_end[s] = "eof"
        /\ srvSock[s] = "wr_shut"
        /\ s2c_pc[s] \in {"read", "write"}

\* Everything the model holds about one session.
SessionView(s) ==
    << sess[s], hsSent[s], dials[s], cliSock[s], srvSock[s],
       c2s_pc[s], packet_count[s], c2s_buf[s], c2s_end[s], cliRead[s],
       srvWritten[s], s2c_pc[s], s2c_buf[s], s2c_end[s], srvRead[s],
       cliWritten[s] >>

\* A step in which session t fails: its handle_client returns an error, or
\* one of its pumps ends on a read or write error.
FailureStep(t) ==
    \/ sess[t] # sess'[t] /\ sess'[t] \in {"addr_failed", "hs_failed", "dial_failed"}
    \/ c2s_end[t] = "none" /\ c2s_end'[t] \in {"read_err", "write_err"}
    \/ s2c_end[t] = "none" /\ s2c_end'[t] \in {"read_err", "write_err"}

\* C9: a step in which one session fails changes nothing of any other
\* session and nothing of the accept loop.
C9_FailureStaysInSession ==
    [][\A t \in Sessions :
          FailureStep(t) =>
              /\ mainVars' = mainVars
              /\ \A s \in Sessions \ {t} : SessionView(s)' = SessionView(s)]_vars

\* C9 witness: one session has failed while another one is forwarding and the
\* accept loop is running.
C9_Witness ==
    \E s, t \in Sessions :
        /\ s # t
        /\ main = "accepting"
        /\ sess[s] = "forwarding" /\ srvWritten[s] # << >>
        /\ \/ sess[t] \in {"addr_failed", "hs_failed", "dial_failed"}
           \/ c2s_end[t] \in {"read_err", "write_err"}
           \/ s2c_end[t] \in {"read_err", "write_err"}

\* C10 (as claimed): once a pump has ended on a read or write error, the
\* session leaves forwarding.
C10_PumpErrorEndsSession ==
    \A s \in Sessions :
        (sess[s] = "forwarding"
           /\ (c2s_end[s] \in {"read_err", "write_err"}
                 \/ s2c_end[s] \in {"read_err", "write_err"}))
            ~> sess[s] # "forwarding"

Min(a, b) == IF a < b THEN a ELSE b

\* C11: packet_count is the number of chunks discarded so far: it is the
\* number of chunks read while that is below skip, and skip from then on, so
\* it stays within 0..skip, grows by one per discarded chunk and no more once
\* it equals skip.
C11_CounterIsDiscardedChunks ==
    \A s \in Sessions :
        /\ packet_count[s] <= skip
        /\ packet_count[s] = Min(Len(cliRead[s]), skip)

\* C11 witness: skip = 2, the counter has reached 2 and stayed there while a
\* third chunk was read and forwarded.
C11_Witness ==
    \E s \in Sessions :
        /\ skip = 2
        /\ packet_count[s] = 2
        /\ Len(cliRead[s]) = 3
        /\ Len(srvWritten[s]) = 1

\* C12: a session whose handshake write did not complete never dials, never
\* gets a target socket and never spawns a pump; after a failed handshake
\* write it has ended with its client socket closed.
C12_HandshakeFailureAborts ==
    \A s \in Sessions :
        /\ (sess[s] \notin {"none", "accepted"} /\ hsSent[s] # HandshakeResponse)
               => /\ sess[s] \in {"hs_failed", "addr_failed", "shutdown"}
                  /\ dials[s] = 0
                  /\ srvSock[s] = "none"
                  /\ c2s_pc[s] = "unspawned"
                  /\ s2c_pc[s] = "unspawned"
        /\ sess[s] = "hs_failed"
               => (hsSent[s] # HandshakeResponse /\ cliSock[s] = "closed")

\* C12 witness: the handshake write failed one byte short of the response.
C12_Witness ==
    \E s \in Sessions :
        /\ sess[s] = "hs_failed"
        /\ Len(hsSent[s]) = Len(HandshakeResponse) - 1
        /\ dials[s] = 0

\* C13: whatever skip is, the bytes written to the client are a prefix of the
\* bytes read from the target, and between two reads every chunk read has
\* been written whole.
C13_TargetToClientUnfiltered ==
    \A s \in Sessions :
        /\ IsPrefix(Flatten(cliWritten[s]), Flatten(srvRead[s]))
        /\ (s2c_pc[s] = "read" \/ s2c_end[s] \in {"eof", "read_err"})
               => cliWritten[s] = srvRead[s]

\* C13 witness: skip = 2, the client's only chunk was discarded, the target's
\* chunks all reached the client.
C13_Witness ==
    \E s \in Sessions :
        /\ skip = 2
        /\ Len(cliRead[s]) = 1 /\ srvWritten[s] = << >> /\ packet_count[s] = 1
        /\ Len(srvRead[s]) >= 2
        /\ cliWritten[s] = srvRead[s]

\* Every element of seq is smaller than the next one.
StrictlyIncreasing(seq) == \A i \in 1..(Len(seq) - 1) : seq[i] < seq[i + 1]

\* The bytes of the client's and of the target's stream.
ClientBytes == {ClientByte(i) : i \in 1..(MaxReads + 2) * MaxChunkLen}
ServerBytes == {ServerByte(i) : i \in 1..(MaxReads + 2) * MaxChunkLen}

\* C14: in each direction the bytes written, followed by the chunk awaiting
\* its write, are bytes of that direction's source in stream order, none
\* twice; the chunk awaiting its write is the last chunk read, and no other
\* chunk read is still unwritten (unless it was discarded or a write failed).
C14_WrittenInReadOrder ==
    \A s \in Sessions :
        /\ StrictlyIncreasing(Flatten(srvWritten[s]) \o c2s_buf[s])
        /\ \A i \in 1..Len(Flatten(srvWritten[s])) :
               Flatten(srvWritten[s])[i] \in ClientBytes
        /\ c2s_buf[s] # << >> => c2s_buf[s] = cliRead[s][Len(cliRead[s])]
        /\ c2s_end[s] # "write_err"
               => Len(srvWritten[s]) + Len(C2SPending(s)) + packet_count[s]
                      = Len(cliRead[s])
        /\ StrictlyIncreasing(Flatten(cliWritten[s]) \o s2c_buf[s])
        /\ \A i \in 1..Len(Flatten(cliWritten[s])) :
               Flatten(cliWritten[s])[i] \in ServerBytes
        /\ s2c_buf[s] # << >> => s2c_buf[s] = srvRead[s][Len(srvRead[s])]
        /\ s2c_end[s] # "write_err"
               => Len(cliWritten[s]) + (IF s2c_buf[s] = << >> THEN 0 ELSE 1)
                      = Len(srvRead[s])

\* C14 witness: one session has written two chunks to the target and one to
\* the client.
C14_Witness ==
    \E s \in Sessions :
        /\ Len(srvWritten[s]) >= 2
        /\ Len(Flatten(srvWritten[s])) >= 3
        /\ Len(cliWritten[s]) >= 1

\* C15: while the accept loop runs, the next connection can be accepted
\* whatever the earlier sessions are doing, and an accepted session can go
\* through its handshake, its dial and its writes whatever the others do.
C15_AcceptNeverWaits ==
    /\ (main = "accepting" /\ accepted < env.conns) => ENABLED Accept
    /\ \A s \in Sessions :
        /\ sess[s] = "accepted" => ENABLED HandshakeOk(s)
        /\ sess[s] = "dialing" => ENABLED DialOk(s)
        /\ (sess[s] = "forwarding" /\ c2s_pc[s] = "write") => ENABLED C2SWriteOk(s)

\* C15 witness: the first session is forwarding with both pumps waiting in
\* read and nothing transferred, the second was accepted after it and has
\* relayed a chunk.
C15_Witness ==
    /\ sess[1] = "forwarding"
    /\ c2s_pc[1] = "read" /\ s2c_pc[1] = "read"
    /\ cliRead[1] = << >> /\ srvRead[1] = << >>
    /\ \E s \in Sessions \ {1} :
           sess[s] = "forwarding" /\ srvWritten[s] # << >>

PumpErrors == {"read_err", "write_err"}

\* C16: the step in which a pump meets a read or write error ends that pump,
\* and from then on the pump reads nothing and writes nothing.
C16_ErrorEndsPump ==
    [][\A s \in Sessions :
          /\ c2s_end'[s] \in PumpErrors => c2s_pc'[s] = "ended"
          /\ c2s_end[s] \in PumpErrors
                 => /\ c2s_end'[s] = c2s_end[s]
                    /\ cliRead'[s] = cliRead[s]
                    /\ srvWritten'[s] = srvWritten[s]
          /\ s2c_end'[s] \in PumpErrors => s2c_pc'[s] = "ended"
          /\ s2c_end[s] \in PumpErrors
                 => /\ s2c_end'[s] = s2c_end[s]
                    /\ srvRead'[s] = srvRead[s]
                    /\ cliWritten'[s] = cliWritten[s]]_vars

\* C16 witness: client_to_server has ended on a write error after part of a
\* chunk, server_to_client on a read error.
C16_Witness ==
    \E s \in Sessions :
        /\ c2s_end[s] = "write_err" /\ c2s_pc[s] = "ended"
        /\ Len(Flatten(srvWritten[s])) < Len(Flatten(cliRead[s]))
        /\ srvWritten[s] # << >>
        /\ s2c_end[s] = "read_err" /\ s2c_pc[s] = "ended"

\* C17: a session that has returned from forwarding has both pumps ended,
\* neither of them cut off by a shutdown, and both sockets closed.
C17_DoneAfterBothPumps ==
    \A s \in Sessions :
        sess[s] = "done" =>
            /\ c2s_pc[s] = "ended" /\ c2s_end[s] \in {"eof"} \cup PumpErrors
            /\ s2c_pc[s] = "ended" /\ s2c_end[s] \in {"eof"} \cup PumpErrors
            /\ cliSock[s] = "closed"
            /\ srvSock[s] = "closed"

\* C17 witness: a session is done after relaying in both directions, one
\* pump ended on EOF and the other on an error.
C17_Witness ==
    \E s \in Sessions :
        /\ sess[s] = "done"
        /\ c2s_end[s] = "eof" /\ s2c_end[s] = "write_err"
        /\ srvWritten[s] # << >> /\ srvRead[s] # << >>

\* The chunks a session has read from its client and neither written nor
\* holds for writing.
Discarded(s) == Len(cliRead[s]) - (Len(srvWritten[s]) + Len(C2SPending(s)))

\* C18: a pump that has read nothing has its counter at 0; every session has
\* discarded its own first skip chunks and no other (as far as it has read);
\* and a step in which one session reads a chunk leaves the counter and the
\* output of every other session as they were.
C18_CountersPerSession ==
    /\ [](\A s \in Sessions :
            /\ cliRead[s] = << >> => packet_count[s] = 0
            /\ c2s_end[s] # "write_err"
                   => Discarded(s) = Min(skip, Len(cliRead[s])))
    /\ [][\A s, t \in Sessions :
            (s # t /\ cliRead'[t] # cliRead[t])
                => /\ packet_count'[s] = packet_count[s]
                   /\ srvWritten'[s] = srvWritten[s]
                   /\ c2s_pc'[s] = c2s_pc[s]]_vars

\* C18 witness: skip = 1 and two sessions forwarding at once, each having
\* discarded its own first chunk and written its own second.
C18_Witness ==
    /\ skip = 1
    /\ \E s, t \in Sessions :
        /\ s # t
        /\ sess[s] = "forwarding" /\ sess[t] = "forwarding"
        /\ Len(cliRead[s]) = 2 /\ srvWritten[s] = << cliRead[s][2] >>
        /\ Len(cliRead[t]) = 2 /\ srvWritten[t] = << cliRead[t][2] >>
        /\ packet_count[s] = 1 /\ packet_count[t] = 1

\* C19: when client_to_server has ended on client EOF after at most skip
\* chunks, nothing was written to the target and the target's write
\* direction is shut down; server_to_client, if it has not ended by itself,
\* still runs with the target's read side and the client's write side open,
\* and its next read or write can complete.
C19_EarlyClientEofWritesNothing ==
    \A s \in Sessions :
        (c2s_end[s] = "eof" /\ Len(cliRead[s]) <= skip) =>
            /\ srvWritten[s] = << >>
            /\ srvSock[s] \in {"wr_shut", "closed"}
            /\ (sess[s] = "forwarding" /\ s2c_end[s] = "none") =>
                   /\ s2c_pc[s] \in {"read", "write"}
                   /\ srvSock[s] = "wr_shut"
                   /\ cliSock[s] = "rd_dropped"
                   /\ s2c_pc[s] = "write" => ENABLED S2CWriteOk(s)
                   /\ (s2c_pc[s] = "read" /\ Len(srvRead[s]) < env.sreads)
                          => ENABLED S2CRead(s, 1)

\* C19 witness: skip chunks (at least one) were read and discarded, the
\* client closed, and server_to_client is writing a further chunk to the
\* client.
C19_Witness ==
    \E s \in Sessions :
        /\ skip >= 1
        /\ c2s_end[s] = "eof"
        /\ Len(cliRead[s]) = skip
        /\ srvWritten[s] = << >>
        /\ cliWritten[s] # << >>
        /\ s2c_pc[s] = "write"

\* C20: when server_to_client has ended (target EOF or an error) and
\* client_to_server has not, the client socket has only its write direction
\* shut and the target socket only its read half released; client_to_server
\* is still at its read or its write, a chunk it holds is one past the skip
\* prefix, and its next read or write can complete.
C20_ClientToServerOutlivesSibling ==
    \A s \in Sessions :
        (/\ sess[s] = "forwarding"
         /\ s2c_pc[s] = "ended" /\ s2c_end[s] \in {"eof"} \cup PumpErrors
         /\ c2s_end[s] = "none") =>
            /\ cliSock[s] = "wr_shut"
            /\ srvSock[s] = "rd_dropped"
            /\ c2s_pc[s] \in {"read", "write"}
            /\ c2s_pc[s] = "write"
                   => /\ Len(cliRead[s]) > skip
                      /\ c2s_buf[s] = cliRead[s][Len(cliRead[s])]
                      /\ ENABLED C2SWriteOk(s)
            /\ (c2s_pc[s] = "read" /\ Len(cliRead[s]) < env.creads)
                   => ENABLED C2SRead(s, 1)

\* C20 witness: the target closed before sending anything; the client's
\* first chunk was discarded (skip = 1), its second written to the target,
\* and client_to_server waits for more.
C20_Witness ==
    \E s \in Sessions :
        /\ skip = 1
        /\ sess[s] = "forwarding"
        /\ s2c_end[s] = "eof" /\ srvRead[s] = << >>
        /\ c2s_end[s] = "none" /\ c2s_pc[s] = "read"
        /\ Len(cliRead[s]) = 2
        /\ srvWritten[s] = << cliRead[s][2] >>

====
